---------------------------- MODULE Spec2Model ----------------------------
(***************************************************************************)
(* One evaluation cycle of the trading runner (src/runner.py) with the     *)
(* helpers it calls (src/lib/custom_helpers.py, src/lib/market_data.py).   *)
(*                                                                         *)
(* Numbers.  Python floats are modelled as exact rationals [n, d] in       *)
(* lowest terms, so 0.25 is R(1, 4) and a comparison such as               *)
(* score > 0.15 is the comparison of the exact values.  The one place      *)
(* where binary rounding decides an outcome, the "%.2f" formatting of a    *)
(* value that lies exactly between two hundredths, is modelled as a choice *)
(* between the two neighbours.                                             *)
(*                                                                         *)
(* Strings are sequences of one-character strings, so that strip(),        *)
(* upper(), capitalize(), startswith(), endswith(), float() and the        *)
(* formatting of a percentage are computed character by character.         *)
(*                                                                         *)
(* Python's None is a value of the shape of the type it stands in for:     *)
(* NoneStr, NoneNum, NonePosition, NoneGuardrail, NoneSnapshot.            *)
(***************************************************************************)
EXTENDS Integers, Sequences, FiniteSets, TLC

VARIABLES
    POSITION_SIZE,        \* runner.py:18   configured sizing spec
    hasTpsl,              \* exchange client has place_position_tpsl (live) or not (ForwardTester)
    exPosition,           \* exchange: the open position of SYMBOL, or NonePosition
    capital,              \* exchange: available USDT balance
    price,                \* exchange: current price of SYMBOL
    MARKET_DATA_INTERVAL, \* runner.py:32   configured bar interval
    klines,               \* runner.py:88   the candles fetch_klines returned (<<>> where
                          \*                a specification draws the snapshot itself)
    pc,                   \* position of the script
    snapshot,             \* runner.py:89
    technical_guardrail,  \* runner.py:84, 90
    volatility_scale,     \* runner.py:92-98
    position_size_spec,   \* runner.py:85, 99
    outlook,              \* runner.py:129, 135
    interpretation,       \* runner.py:130, 134, 145
    final_signal,         \* runner.py:137
    position,             \* runner.py:152, 206
    current_position,     \* runner.py:153
    matched,              \* the case of the match statement that was taken
    qty,                  \* custom_helpers.py:124
    order_response,       \* custom_helpers.py:127, 157
    error,                \* the exception that ended the main path, or "None"
    calls                 \* every call made to the exchange client, in order

vars == <<POSITION_SIZE, hasTpsl, exPosition, capital, price, MARKET_DATA_INTERVAL,
          klines, pc, snapshot,
          technical_guardrail, volatility_scale, position_size_spec, outlook,
          interpretation, final_signal, position, current_position, matched,
          qty, order_response, error, calls>>

(***************************************************************************)
(* Exact arithmetic standing in for float.                                 *)
(***************************************************************************)
Abs(x) == IF x < 0 THEN -x ELSE x

RECURSIVE GCD(_, _)
GCD(a, b) == IF b = 0 THEN a ELSE GCD(b, a % b)

R(n, d) ==
    LET g == GCD(Abs(n), d)
    IN  [n |-> n \div g, d |-> d \div g]

RInt(k) == [n |-> k, d |-> 1]

NoneNum == [n |-> 0, d |-> 0]

RAdd(a, b) == R(a.n * b.d + b.n * a.d, a.d * b.d)
RSub(a, b) == R(a.n * b.d - b.n * a.d, a.d * b.d)
RNeg(a) == [n |-> -a.n, d |-> a.d]
RMul(a, b) == R(a.n * b.n, a.d * b.d)
RDiv(a, b) == IF b.n > 0 THEN R(a.n * b.d, a.d * b.n) ELSE R(-(a.n * b.d), -(a.d * b.n))
RLt(a, b) == a.n * b.d < b.n * a.d
RLe(a, b) == a.n * b.d <= b.n * a.d
RGt(a, b) == RLt(b, a)
RGe(a, b) == RLe(b, a)
RAbs(a) == [n |-> Abs(a.n), d |-> a.d]
RMin(a, b) == IF RLe(a, b) THEN a ELSE b
RMax(a, b) == IF RGe(a, b) THEN a ELSE b

(***************************************************************************)
(* Strings.                                                                *)
(***************************************************************************)
Uppers == <<"A","B","C","D","E","F","G","H","I","J","K","L","M",
            "N","O","P","Q","R","S","T","U","V","W","X","Y","Z">>
Lowers == <<"a","b","c","d","e","f","g","h","i","j","k","l","m",
            "n","o","p","q","r","s","t","u","v","w","x","y","z">>
Whitespace == {" ", "\t", "\n"}

NoneStr == <<"None">>

CharUpper(c) == IF \E i \in 1..26 : Lowers[i] = c
                THEN Uppers[CHOOSE i \in 1..26 : Lowers[i] = c] ELSE c
CharLower(c) == IF \E i \in 1..26 : Uppers[i] = c
                THEN Lowers[CHOOSE i \in 1..26 : Uppers[i] = c] ELSE c

upper(s) == [i \in 1..Len(s) |-> CharUpper(s[i])]
capitalize(s) == [i \in 1..Len(s) |-> IF i = 1 THEN CharUpper(s[i]) ELSE CharLower(s[i])]

RECURSIVE lstrip(_)
lstrip(s) == IF s # <<>> /\ s[1] \in Whitespace THEN lstrip(Tail(s)) ELSE s

RECURSIVE rstripWs(_)
rstripWs(s) == IF s # <<>> /\ s[Len(s)] \in Whitespace
               THEN rstripWs(SubSeq(s, 1, Len(s) - 1)) ELSE s

strip(s) == rstripWs(lstrip(s))

RECURSIVE rstrip(_, _)
rstrip(s, c) == IF s # <<>> /\ s[Len(s)] = c
                THEN rstrip(SubSeq(s, 1, Len(s) - 1), c) ELSE s

startswith(s, p) == Len(s) >= Len(p) /\ SubSeq(s, 1, Len(p)) = p
endswith(s, p) == Len(s) >= Len(p) /\ SubSeq(s, Len(s) - Len(p) + 1, Len(s)) = p

\* bool(s) of an Optional[str]: None and "" are falsy.
Truthy(s) == s # NoneStr /\ s # <<>>

Bullish == <<"B","u","l","l","i","s","h">>
Bearish == <<"B","e","a","r","i","s","h">>
Neutral == <<"N","e","u","t","r","a","l">>
Signals == {Bullish, Bearish, Neutral}

(***************************************************************************)
(* custom_helpers.py: signal fusion.                                       *)
(***************************************************************************)
_normalize_signal(signal) ==
    IF ~Truthy(signal) THEN Neutral
    ELSE LET cleaned == capitalize(strip(signal))
         IN  IF cleaned \notin Signals THEN Neutral ELSE cleaned

\* combine_signals with the conflict threshold exclusive (> 0.75).
combine_signals_exclusive(ai_signal, technical_signal, technical_confidence) ==
    LET normalized_ai == _normalize_signal(ai_signal)
        normalized_tech == IF Truthy(technical_signal)
                           THEN _normalize_signal(technical_signal) ELSE NoneStr
    IN  IF normalized_tech = NoneStr \/ technical_confidence = NoneNum
            THEN normalized_ai
        ELSE IF normalized_ai = normalized_tech
            THEN normalized_ai
        ELSE IF normalized_ai = Neutral /\ RGe(technical_confidence, R(55, 100))
            THEN normalized_tech
        ELSE IF normalized_tech = Neutral
            THEN normalized_ai
        ELSE IF RGt(technical_confidence, R(75, 100))
            THEN Neutral
        ELSE normalized_ai

combine_signals(ai_signal, technical_signal, technical_confidence) ==
    LET normalized_ai == _normalize_signal(ai_signal)
        normalized_tech == IF Truthy(technical_signal)
                           THEN _normalize_signal(technical_signal) ELSE NoneStr
    IN  IF normalized_tech = NoneStr \/ technical_confidence = NoneNum
            THEN normalized_ai
        ELSE IF normalized_ai = normalized_tech
            THEN normalized_ai
        ELSE IF normalized_ai = Neutral /\ RGe(technical_confidence, R(55, 100))
            THEN normalized_tech
        ELSE IF normalized_tech = Neutral
            THEN normalized_ai
        ELSE IF RGe(technical_confidence, R(75, 100))
            THEN Neutral
        ELSE normalized_ai

(***************************************************************************)
(* market_data.py: the deterministic guardrail.                            *)
(* A MarketSnapshot carries the fields derive_signal and the runner read.  *)
(* A rationale part is the text of the reason with the values formatted    *)
(* into it; the rationale is the sequence of the parts that "; ".join      *)
(* concatenates.                                                           *)
(***************************************************************************)
NoneSnapshot == [latest_close |-> NoneNum, change_24h |-> NoneNum, change_4h |-> NoneNum,
                 momentum_1h |-> NoneNum, rsi |-> NoneNum, sma_fast |-> NoneNum,
                 sma_slow |-> NoneNum, atr_pct |-> NoneNum, volume_24h |-> NoneNum]

NoneGuardrail == [signal |-> NoneStr, confidence |-> NoneNum, rationale |-> <<>>]

Part(text, values) == [text |-> text, values |-> values]

trend_part(s) ==
    IF RGt(s.latest_close, s.sma_slow)
    THEN [bias |-> R(1, 4),
          parts |-> <<Part("Price above long SMA", <<s.latest_close, s.sma_slow>>)>>]
    ELSE [bias |-> RNeg(R(1, 4)),
          parts |-> <<Part("Price below long SMA", <<s.latest_close, s.sma_slow>>)>>]

ma_cross_part(s) ==
    IF RGt(s.sma_fast, s.sma_slow)
    THEN [bias |-> R(1, 5), parts |-> <<Part("SMA20>SMA60", <<>>)>>]
    ELSE [bias |-> RNeg(R(1, 5)), parts |-> <<Part("SMA20<SMA60", <<>>)>>]

rsi_part(s) ==
    IF RGe(s.rsi, RInt(55))
    THEN [bias |-> RMin(R(1, 5), RDiv(RSub(s.rsi, RInt(55)), RInt(100))),
          parts |-> <<Part("RSI strong", <<s.rsi>>)>>]
    ELSE IF RLe(s.rsi, RInt(45))
    THEN [bias |-> RNeg(RMin(R(1, 5), RDiv(RSub(RInt(45), s.rsi), RInt(100)))),
          parts |-> <<Part("RSI weak", <<s.rsi>>)>>]
    ELSE [bias |-> RInt(0), parts |-> <<>>]

momentum_part(s) ==
    IF RGe(s.momentum_1h, R(2, 1000))
    THEN [bias |-> R(15, 100),
          parts |-> <<Part("1h momentum +", <<RMul(s.momentum_1h, RInt(100))>>)>>]
    ELSE IF RLe(s.momentum_1h, RNeg(R(2, 1000)))
    THEN [bias |-> RNeg(R(15, 100)),
          parts |-> <<Part("1h momentum ", <<RMul(s.momentum_1h, RInt(100))>>)>>]
    ELSE [bias |-> RInt(0), parts |-> <<>>]

change_24h_part(s) ==
    IF RGe(s.change_24h, R(5, 1000))
    THEN [bias |-> R(1, 10), parts |-> <<>>]
    ELSE IF RLe(s.change_24h, RNeg(R(5, 1000)))
    THEN [bias |-> RNeg(R(1, 10)), parts |-> <<>>]
    ELSE [bias |-> RInt(0), parts |-> <<>>]

derive_score(s) ==
    RAdd(RAdd(RAdd(RAdd(RAdd(RInt(0), trend_part(s).bias), ma_cross_part(s).bias),
                   rsi_part(s).bias), momentum_part(s).bias), change_24h_part(s).bias)

\* The thresholds of the signal inclusive (>= 0.15, <= -0.15).
signal_of_score_inclusive(score) ==
    IF RGe(score, R(15, 100)) THEN Bullish
    ELSE IF RLe(score, RNeg(R(15, 100))) THEN Bearish
    ELSE Neutral

signal_of_score(score) ==
    IF RGt(score, R(15, 100)) THEN Bullish
    ELSE IF RLt(score, RNeg(R(15, 100))) THEN Bearish
    ELSE Neutral

\* The confidence on a base of 0.35 instead of 0.55.
confidence_of_score_low(score) ==
    RMax(R(45, 100), RMin(R(95, 100), RAdd(R(35, 100), RAbs(score))))

\* market_data.py:145
confidence_of_score(score) ==
    RMax(R(45, 100), RMin(R(95, 100), RAdd(R(55, 100), RAbs(score))))

derive_signal(s) ==
    LET score == derive_score(s)
    IN  [signal |-> signal_of_score(score),
         confidence |-> confidence_of_score(score),
         rationale |-> trend_part(s).parts \o ma_cross_part(s).parts \o rsi_part(s).parts
                       \o momentum_part(s).parts \o change_24h_part(s).parts]

(***************************************************************************)
(* Sizing specs.  A spec is a Python value: a str, an int, a float, or a   *)
(* value of another type.  USDT amounts are counted in units of 1e-8 USDT, *)
(* so that the clamp 1e-8 of runner.py:48 is the rational 1.               *)
(***************************************************************************)
StrSpec(s) == [type |-> "str", s |-> s, v |-> NoneNum]
NumSpec(t, v) == [type |-> t, s |-> NoneStr, v |-> v]
OtherSpec(t) == [type |-> t, s |-> NoneStr, v |-> NoneNum]

Digits == <<"0","1","2","3","4","5","6","7","8","9">>
IsDigit(c) == \E i \in 1..10 : Digits[i] = c
DigitVal(c) == (CHOOSE i \in 1..10 : Digits[i] = c) - 1

RECURSIVE DigitsToInt(_)
DigitsToInt(s) == IF s = <<>> THEN 0
                  ELSE DigitsToInt(SubSeq(s, 1, Len(s) - 1)) * 10 + DigitVal(s[Len(s)])

RECURSIVE Pow10(_)
Pow10(k) == IF k = 0 THEN 1 ELSE 10 * Pow10(k - 1)

RECURSIVE IntToStr(_)
IntToStr(k) == IF k < 10 THEN <<Digits[k + 1]>>
               ELSE IntToStr(k \div 10) \o <<Digits[(k % 10) + 1]>>

\* float(s) for a decimal literal: surrounding whitespace, an optional sign,
\* digits with at most one point.  NoneNum stands for the ValueError.
float(s) ==
    LET t == strip(s)
        signed == t # <<>> /\ t[1] \in {"+", "-"}
        body == IF signed THEN Tail(t) ELSE t
        dots == {i \in 1..Len(body) : body[i] = "."}
        dot == IF dots = {} THEN Len(body) + 1 ELSE CHOOSE i \in dots : TRUE
        ip == SubSeq(body, 1, dot - 1)
        fp == SubSeq(body, dot + 1, Len(body))
        ok == /\ Cardinality(dots) <= 1
              /\ \A i \in 1..Len(body) : IsDigit(body[i]) \/ body[i] = "."
              /\ Len(ip) + Len(fp) > 0
        mag == R(DigitsToInt(ip \o fp), Pow10(Len(fp)))
    IN  IF ~ok THEN NoneNum
        ELSE IF signed /\ t[1] = "-" THEN RNeg(mag) ELSE mag

\* f"{x:.2f}" for x >= 0: the nearest hundredth; a value exactly between two
\* hundredths goes to the one its binary representation is nearer to, which
\* is either.
Format2f(x) ==
    LET h == (x.n * 100) \div x.d
        r == (x.n * 100) % x.d
        hs == IF 2 * r < x.d THEN {h} ELSE IF 2 * r > x.d THEN {h + 1} ELSE {h, h + 1}
    IN  {IntToStr(k \div 100) \o <<".", Digits[((k \div 10) % 10) + 1], Digits[(k % 10) + 1]>>
            : k \in hs}

IsNumber(spec) == spec.type \in {"int", "float"}

\* runner.py:35-50.  The set of values the call can return.
_scale_position_size_spec(position_size, scale) ==
    IF scale = RInt(1) THEN {position_size}
    ELSE IF position_size.type = "str" /\ endswith(position_size.s, <<"%">>)
    THEN LET numeric == float(rstrip(position_size.s, "%"))
         IN  IF numeric = NoneNum THEN {position_size}
             ELSE {StrSpec(f \o <<"%">>) : f \in Format2f(RMax(R(1, 10), RMul(numeric, scale)))}
    ELSE IF IsNumber(position_size)
    THEN {NumSpec("float", RMax(RInt(1), RMul(position_size.v, scale)))}
    ELSE {position_size}

\* The volatility classes with the upper threshold exclusive (> 4).
volatility_scale_of_exclusive(atr_pct) ==
    IF RGt(atr_pct, RInt(4)) THEN R(1, 2)
    ELSE IF RGe(atr_pct, RInt(3)) THEN R(3, 4)
    ELSE IF RLe(atr_pct, RInt(1)) THEN R(11, 10)
    ELSE RInt(1)

\* runner.py:92-98
volatility_scale_of(atr_pct) ==
    IF RGe(atr_pct, RInt(4)) THEN R(1, 2)
    ELSE IF RGe(atr_pct, RInt(3)) THEN R(3, 4)
    ELSE IF RLe(atr_pct, RInt(1)) THEN R(11, 10)
    ELSE RInt(1)

\* custom_helpers.py:65-89, given the balance and the price already fetched.
Returned(q) == [raised |-> "None", qty |-> q]
Raised(e) == [raised |-> e, qty |-> NoneNum]

\* calculate_position_size without the upper bound of the percentage.
calculate_position_size_unbounded(cap, current_price, position_size) ==
    IF position_size.type = "str"
    THEN IF endswith(position_size.s, <<"%">>)
         THEN LET percentage == float(rstrip(position_size.s, "%"))
              IN  IF percentage = NoneNum THEN Raised("ValueError")
                  ELSE IF ~RLt(RInt(0), percentage)
                  THEN Raised("ValueError")
                  ELSE Returned(RDiv(RMul(cap, RDiv(percentage, RInt(100))), current_price))
         ELSE Raised("ValueError")
    ELSE IF IsNumber(position_size)
    THEN IF RLe(position_size.v, RInt(0)) THEN Raised("ValueError")
         ELSE IF RGt(position_size.v, cap) THEN Raised("ValueError")
         ELSE Returned(RDiv(position_size.v, current_price))
    ELSE Raised("TypeError")

calculate_position_size(cap, current_price, position_size) ==
    IF position_size.type = "str"
    THEN IF endswith(position_size.s, <<"%">>)
         THEN LET percentage == float(rstrip(position_size.s, "%"))
              IN  IF percentage = NoneNum THEN Raised("ValueError")
                  ELSE IF ~(RLt(RInt(0), percentage) /\ RLe(percentage, RInt(100)))
                  THEN Raised("ValueError")
                  ELSE Returned(RDiv(RMul(cap, RDiv(percentage, RInt(100))), current_price))
         ELSE Raised("ValueError")
    ELSE IF IsNumber(position_size)
    THEN IF RLe(position_size.v, RInt(0)) THEN Raised("ValueError")
         ELSE IF RGt(position_size.v, cap) THEN Raised("ValueError")
         ELSE Returned(RDiv(position_size.v, current_price))
    ELSE Raised("TypeError")

\* custom_helpers.py:28-43
calculate_stop_loss_price(entry_price, side, sl_percent) ==
    IF side = <<"B","U","Y">>
    THEN RMul(entry_price, RSub(RInt(1), RDiv(sl_percent, RInt(100))))
    ELSE RMul(entry_price, RAdd(RInt(1), RDiv(sl_percent, RInt(100))))

\* custom_helpers.py:160-177 (the mapping is tried in its insertion order)
normalize_position_side(raw_side) ==
    IF ~Truthy(raw_side) THEN NoneStr
    ELSE LET side == upper(strip(raw_side))
         IN  IF startswith(side, <<"B","U","Y">>) THEN <<"b","u","y">>
             ELSE IF startswith(side, <<"B","I","D">>) THEN <<"b","u","y">>
             ELSE IF startswith(side, <<"L","O","N","G">>) THEN <<"b","u","y">>
             ELSE IF startswith(side, <<"S","E","L","L">>) THEN <<"s","e","l","l">>
             ELSE IF startswith(side, <<"A","S","K">>) THEN <<"s","e","l","l">>
             ELSE IF startswith(side, <<"S","H","O","R","T">>) THEN <<"s","e","l","l">>
             ELSE NoneStr

(***************************************************************************)
(* The exchange client and the opinion source, at their interface.         *)
(* A call either returns or raises; a call that raises has changed nothing *)
(* at the exchange.  calls records every call made to the exchange client: *)
(* the operation, whether it returned (ok) or raised, whether the main     *)
(* path or the handler made it, the side of an order, and in arg the       *)
(* quantity of an order, the stop price of a stop-loss, the position id    *)
(* given to a flash close, or the id of the position a query returned      *)
(* (0: no position).                                                       *)
(***************************************************************************)
STOP_LOSS_PERCENT == 10

NonePosition == [side |-> NoneStr, positionId |-> 0, avgOpenPrice |-> NoneNum]
NoneOutlook == [interpretation |-> NoneStr]

Call(op, ok, path, side, arg) ==
    [op |-> op, ok |-> ok, path |-> path, side |-> side, arg |-> arg]

BUY == <<"B","U","Y">>
SELL == <<"S","E","L","L">>
buy == <<"b","u","y">>
sell == <<"s","e","l","l">>

\* The labels an exchange may report as the side of a position.
RawSides == {BUY, SELL, <<" ","l","o","n","g">>, <<"S","h","o","r","t">>,
             <<"B","O","T","H">>}

\* The outlooks the opinion source may return.
AIOutlooks == {Bullish, <<"b","e","a","r","i","s","h">>,
               <<" ","N","E","U","T","R","A","L","\n">>, <<"H","o","l","d">>}

MaxPrice == 1
MaxCapital == 2
Prices == {RInt(k) : k \in 1..MaxPrice}
Capitals == {RInt(15 * k) : k \in 1..MaxCapital}

pct(chars) == StrSpec(chars \o <<"%">>)

\* The sizing specs of the cycle: the configured 20, "10%", and "150%".
CycleSpecs == {NumSpec("int", RInt(20)), pct(<<"1","0">>), pct(<<"1","5","0">>)}

\* market_data.py:80-93.  symbol and interval are those of the call, and
\* volatility_24h (a standard deviation, read only by format_market_context)
\* is not carried.
MarketSnapshot(latest_close, change_24h, change_4h, momentum_1h, rsi, sma_fast, sma_slow, atr_pct, volume_24h) ==
    [latest_close |-> latest_close, change_24h |-> change_24h, change_4h |-> change_4h,
     momentum_1h |-> momentum_1h, rsi |-> rsi, sma_fast |-> sma_fast,
     sma_slow |-> sma_slow, atr_pct |-> atr_pct, volume_24h |-> volume_24h]

\* A snapshot with a flat 4h change and one unit of 24h volume.
Snap(close, fast, slow, rsi, mom, chg, atr) ==
    MarketSnapshot(close, chg, RInt(0), mom, rsi, fast, slow, atr, RInt(1))

\* The snapshots of the cycle: every guardrail signal, confidences on both
\* sides of 0.75, and the four volatility classes (ATR% 0.5, 2, 3.5 and
\* 4.5, one for each placing of the close and the fast average around the
\* slow one).
CycleSnapshots ==
    {Snap(RInt(c), RInt(f), RInt(2), RInt(r), RInt(0), RInt(0),
          R(<<1, 4, 7, 9>>[((c + 1) \div 2) + (f - 1)], 2)) :
        c \in {1, 3}, f \in {1, 3}, r \in {33, 67}}

Init ==
    /\ POSITION_SIZE \in CycleSpecs
    /\ hasTpsl \in BOOLEAN
    /\ price \in Prices
    /\ capital \in Capitals
    /\ MARKET_DATA_INTERVAL = <<"1","5","m">>
    /\ klines = <<>>
    /\ exPosition \in {NonePosition}
          \cup {[side |-> l, positionId |-> 1, avgOpenPrice |-> price] : l \in RawSides}
    /\ pc = "fetch"
    /\ snapshot = NoneSnapshot
    /\ technical_guardrail = NoneGuardrail
    /\ volatility_scale = NoneNum
    /\ position_size_spec = POSITION_SIZE
    /\ outlook = NoneOutlook
    /\ interpretation = NoneStr
    /\ final_signal = NoneStr
    /\ position = NonePosition
    /\ current_position = NoneStr
    /\ matched = "None"
    /\ qty = NoneNum
    /\ order_response = "None"
    /\ error = "None"
    /\ calls = <<>>

config == <<POSITION_SIZE, hasTpsl, capital, price, MARKET_DATA_INTERVAL, klines>>

(***************************************************************************)
(* market_data.py:61-94, 167-182  build_snapshot                           *)
(* A candle carries its close and its volume.  The series are shorter than *)
(* the shortest indicator period (14 bars), so RSI, both averages and the  *)
(* ATR take their fallbacks (50, the latest close, 0): what the snapshot   *)
(* owes to the interval is in its windows.                                 *)
(***************************************************************************)
\* int(str) on the strings the intervals here are made of: digits, or
\* nothing at all (ValueError).
IsInt(s) == s # <<>> /\ \A i \in 1..Len(s) : IsDigit(s[i])

multipliers == [u \in {"m", "h", "d"} |-> IF u = "m" THEN 1 ELSE IF u = "h" THEN 60 ELSE 60 * 24]

\* market_data.py:176-182.  int(interval[:-1]) is evaluated before the unit
\* is looked up.
_interval_to_minutes(interval) ==
    IF interval = <<>> THEN [raised |-> "IndexError", value |-> 0]
    ELSE LET unit == interval[Len(interval)]
             head == SubSeq(interval, 1, Len(interval) - 1)
         IN  IF ~IsInt(head) THEN [raised |-> "ValueError", value |-> 0]
             ELSE IF unit \notin DOMAIN multipliers
                  THEN [raised |-> "ValueError", value |-> 0]
             ELSE [raised |-> "None", value |-> DigitsToInt(head) * multipliers[unit]]

\* market_data.py:68-70, 76, 78: int(period / minutes) truncates the quotient.
window_bars(period_minutes, interval_minutes) == period_minutes \div interval_minutes

\* market_data.py:167-174
_period_pct_change(series, bars) ==
    IF Len(series) <= bars \/ bars <= 0 THEN RInt(0)
    ELSE LET latest == series[Len(series)]
             base == series[Len(series) - bars]
         IN  IF base = RInt(0) THEN RInt(0) ELSE RDiv(RSub(latest, base), base)

\* series.iloc[-n:]: the last n items, all of them when the series is
\* shorter, and the whole series when n is 0 (-0 is 0).
iloc_last(series, n) ==
    IF n = 0 THEN series
    ELSE SubSeq(series, IF Len(series) > n THEN Len(series) - n + 1 ELSE 1, Len(series))

RECURSIVE sum(_)
sum(series) == IF series = <<>> THEN RInt(0) ELSE RAdd(series[1], sum(Tail(series)))

\* market_data.py:61-94 on a frame of fewer than 14 candles.
build_snapshot(interval, frame) ==
    LET minutes == _interval_to_minutes(interval)
        closes == [i \in 1..Len(frame) |-> frame[i].close]
        volumes == [i \in 1..Len(frame) |-> frame[i].volume]
        latest == closes[Len(closes)]
    IN  IF minutes.raised # "None" THEN [raised |-> minutes.raised, value |-> NoneSnapshot]
        ELSE IF minutes.value = 0
             THEN [raised |-> "ZeroDivisionError", value |-> NoneSnapshot]
        ELSE [raised |-> "None",
              value |-> MarketSnapshot(
                  latest,
                  _period_pct_change(closes, window_bars(24 * 60, minutes.value)),
                  _period_pct_change(closes, window_bars(4 * 60, minutes.value)),
                  _period_pct_change(closes,
                      IF window_bars(60, minutes.value) > 1
                      THEN window_bars(60, minutes.value) ELSE 1),
                  RInt(50), latest, latest, RInt(0),
                  sum(iloc_last(volumes, window_bars(24 * 60, minutes.value))))]

\* runner.py:89 with the candles fetched: build_snapshot returns the
\* snapshot, or raises and the except of line 112 logs it.
BuildSnapshot ==
    /\ pc = "build"
    /\ LET built == build_snapshot(MARKET_DATA_INTERVAL, klines)
       IN  IF built.raised = "None"
           THEN snapshot' = built.value /\ pc' = "derive"
           ELSE snapshot' = snapshot /\ pc' = "ai"
    /\ UNCHANGED <<config, exPosition, technical_guardrail, volatility_scale,
                   position_size_spec, outlook, interpretation, final_signal, position,
                   current_position, matched, qty, order_response, error, calls>>

(***************************************************************************)
(* runner.py:87-113  market context                                        *)
(***************************************************************************)
\* runner.py:88-89: fetch_klines and build_snapshot return a snapshot, or
\* one of them raises and the except of line 112 logs it.
FetchMarketData ==
    /\ pc = "fetch"
    /\ \/ \E s \in CycleSnapshots : snapshot' = s /\ pc' = "derive"
       \/ snapshot' = snapshot /\ pc' = "ai"
    /\ UNCHANGED <<config, exPosition, technical_guardrail, volatility_scale,
                   position_size_spec, outlook, interpretation, final_signal, position,
                   current_position, matched, qty, order_response, error, calls>>

\* runner.py:90
DeriveSignal ==
    /\ pc = "derive"
    /\ technical_guardrail' = derive_signal(snapshot)
    /\ pc' = "scale"
    /\ UNCHANGED <<config, exPosition, snapshot, volatility_scale, position_size_spec,
                   outlook, interpretation, final_signal, position, current_position,
                   matched, qty, order_response, error, calls>>

\* runner.py:92-99
ScaleSpec ==
    /\ pc = "scale"
    /\ volatility_scale' = volatility_scale_of(snapshot.atr_pct)
    /\ position_size_spec' \in _scale_position_size_spec(POSITION_SIZE, volatility_scale')
    /\ pc' = "ai"
    /\ UNCHANGED <<config, exPosition, snapshot, technical_guardrail, outlook,
                   interpretation, final_signal, position, current_position, matched,
                   qty, order_response, error, calls>>

(***************************************************************************)
(* runner.py:128-148  opinion and fusion                                   *)
(***************************************************************************)
\* The opinion request without its own try: a failure reaches the handler.
AIRequest_fatal ==
    /\ pc = "ai"
    /\ \/ /\ \E raw \in AIOutlooks :
                outlook' = [interpretation |-> raw] /\ interpretation' = raw
          /\ pc' = "fuse"
          /\ error' = error
       \/ /\ outlook' = NoneOutlook /\ interpretation' = Neutral
          /\ pc' = "handler"
          /\ error' = "AIResponseError"
    /\ UNCHANGED <<config, exPosition, snapshot, technical_guardrail, volatility_scale,
                   position_size_spec, final_signal, position, current_position, matched,
                   qty, order_response, calls>>

\* runner.py:128-135
AIRequest ==
    /\ pc = "ai"
    /\ \/ \E raw \in AIOutlooks :
             outlook' = [interpretation |-> raw] /\ interpretation' = raw
       \/ outlook' = NoneOutlook /\ interpretation' = Neutral
    /\ pc' = "fuse"
    /\ UNCHANGED <<config, exPosition, snapshot, technical_guardrail, volatility_scale,
                   position_size_spec, final_signal, position, current_position, matched,
                   qty, order_response, error, calls>>

\* runner.py:137-147
Fuse ==
    /\ pc = "fuse"
    /\ final_signal' = combine_signals(
            interpretation,
            IF technical_guardrail # NoneGuardrail THEN technical_guardrail.signal ELSE NoneStr,
            IF technical_guardrail # NoneGuardrail THEN technical_guardrail.confidence
                                                   ELSE NoneNum)
    /\ interpretation' = final_signal'
    /\ pc' = IF outlook # NoneOutlook THEN "save" ELSE "query"
    /\ UNCHANGED <<config, exPosition, snapshot, technical_guardrail, volatility_scale,
                   position_size_spec, outlook, position, current_position, matched,
                   qty, order_response, error, calls>>

\* runner.py:148: ai.save_response is outside every try; if it raises, the
\* script ends there.
SaveResponse ==
    /\ pc = "save"
    /\ \/ pc' = "query" /\ error' = error
       \/ pc' = "crashed" /\ error' = "Exception"
    /\ UNCHANGED <<config, exPosition, snapshot, technical_guardrail, volatility_scale,
                   position_size_spec, outlook, interpretation, final_signal, position,
                   current_position, matched, qty, order_response, calls>>

(***************************************************************************)
(* runner.py:150-199  the main decision path                               *)
(***************************************************************************)
Flips == {"Bullish/sell", "Bearish/buy"}
Opens == {"Bullish/None", "Bearish/None"}

\* The direction open_position is called with in each case that opens.
Direction(case) == IF case \in {"Bullish/None", "Bullish/sell"} THEN buy ELSE sell

\* match with the first two Bullish patterns exchanged: a long is opened on
\* top of a short, and an absent position is "closed".
match_swapped(signal, side) ==
    IF signal = Bullish /\ side = NoneStr THEN "Bullish/sell"
    ELSE IF signal = Bullish /\ side = sell THEN "Bullish/None"
    ELSE IF signal = Bullish /\ side = buy THEN "Bullish/buy"
    ELSE IF signal = Bearish /\ side = NoneStr THEN "Bearish/None"
    ELSE IF signal = Bearish /\ side = buy THEN "Bearish/buy"
    ELSE IF signal = Bearish /\ side = sell THEN "Bearish/sell"
    ELSE IF signal = Neutral /\ side \in {buy, sell} THEN "Neutral/position"
    ELSE IF signal = Neutral /\ side = NoneStr THEN "Neutral/None"
    ELSE "no case"

\* runner.py:161-197: the case of the match statement taken.
match(signal, side) ==
    IF signal = Bullish /\ side = NoneStr THEN "Bullish/None"
    ELSE IF signal = Bullish /\ side = sell THEN "Bullish/sell"
    ELSE IF signal = Bullish /\ side = buy THEN "Bullish/buy"
    ELSE IF signal = Bearish /\ side = NoneStr THEN "Bearish/None"
    ELSE IF signal = Bearish /\ side = buy THEN "Bearish/buy"
    ELSE IF signal = Bearish /\ side = sell THEN "Bearish/sell"
    ELSE IF signal = Neutral /\ side \in {buy, sell} THEN "Neutral/position"
    ELSE IF signal = Neutral /\ side = NoneStr THEN "Neutral/None"
    ELSE "no case"

\* Where the script goes after the match statement has chosen its case, and
\* after the flash close of that case has returned.
\* A case that opens submits its order without sizing it first.
after_match_unsized(case) ==
    IF case \in Opens THEN "order"
    ELSE IF case \in Flips \/ case = "Neutral/position" THEN "flash"
    ELSE "completed"

after_match(case) ==
    IF case \in Opens THEN "size"
    ELSE IF case \in Flips \/ case = "Neutral/position" THEN "flash"
    ELSE "completed"

after_flash_close(case) == IF case \in Flips THEN "size" ELSE "completed"

\* runner.py:152-154
GetPendingPositions ==
    /\ pc = "query"
    /\ \/ /\ position' = exPosition
          /\ current_position' = IF position' # NonePosition
                                 THEN normalize_position_side(position'.side) ELSE NoneStr
          /\ calls' = Append(calls, Call("get_pending_positions", TRUE, "main", NoneStr,
                                         RInt(exPosition.positionId)))
          /\ pc' = "balance"
          /\ error' = error
       \/ /\ calls' = Append(calls, Call("get_pending_positions", FALSE, "main", NoneStr, NoneNum))
          /\ pc' = "handler"
          /\ error' = "BitunixError"
          /\ UNCHANGED <<position, current_position>>
    /\ UNCHANGED <<config, exPosition, snapshot, technical_guardrail, volatility_scale,
                   position_size_spec, outlook, interpretation, final_signal, matched,
                   qty, order_response>>

\* A call of the main path that returns nothing the script keeps.
MainCall(at, op, next) ==
    /\ pc = at
    /\ \/ /\ calls' = Append(calls, Call(op, TRUE, "main", NoneStr, NoneNum))
          /\ pc' = next
          /\ error' = error
       \/ /\ calls' = Append(calls, Call(op, FALSE, "main", NoneStr, NoneNum))
          /\ pc' = "handler"
          /\ error' = "BitunixError"
    /\ UNCHANGED <<config, exPosition, snapshot, technical_guardrail, volatility_scale,
                   position_size_spec, outlook, interpretation, final_signal, position,
                   current_position, matched, qty, order_response>>

\* runner.py:155
LogBalance == MainCall("balance", "get_account_balance", "margin")

\* runner.py:158
SetMarginMode == MainCall("margin", "set_margin_mode", "leverage")

\* runner.py:159
SetLeverage == MainCall("leverage", "set_leverage", "match")

\* runner.py:161-197
Match ==
    /\ pc = "match"
    /\ matched' = match(interpretation, current_position)
    /\ pc' = after_match(matched')
    /\ UNCHANGED <<config, exPosition, snapshot, technical_guardrail, volatility_scale,
                   position_size_spec, outlook, interpretation, final_signal, position,
                   current_position, qty, order_response, error, calls>>

\* runner.py:170, 185, 195
FlashClose ==
    /\ pc = "flash"
    /\ \/ /\ calls' = Append(calls, Call("flash_close_position", TRUE, "main", NoneStr,
                                         RInt(position.positionId)))
          /\ exPosition' = IF exPosition.positionId = position.positionId
                           THEN NonePosition ELSE exPosition
          /\ pc' = after_flash_close(matched)
          /\ error' = error
       \/ /\ calls' = Append(calls, Call("flash_close_position", FALSE, "main", NoneStr,
                                         RInt(position.positionId)))
          /\ exPosition' = exPosition
          /\ pc' = "handler"
          /\ error' = "BitunixError"
    /\ UNCHANGED <<config, snapshot, technical_guardrail, volatility_scale,
                   position_size_spec, outlook, interpretation, final_signal, position,
                   current_position, matched, qty, order_response>>

(***************************************************************************)
(* custom_helpers.py:92-157  open_position                                 *)
(***************************************************************************)
\* custom_helpers.py:124 (calculate_position_size, lines 62-89)
CalcSize ==
    /\ pc = "size"
    /\ \/ /\ calls' = Append(calls, Call("get_account_balance", FALSE, "main", NoneStr, NoneNum))
          /\ error' = "BitunixError"
          /\ pc' = "handler"
          /\ qty' = qty
       \/ /\ calls' = calls \o <<Call("get_account_balance", TRUE, "main", NoneStr, NoneNum),
                                 Call("get_current_price", FALSE, "main", NoneStr, NoneNum)>>
          /\ error' = "BitunixError"
          /\ pc' = "handler"
          /\ qty' = qty
       \/ LET r == calculate_position_size(capital, price, position_size_spec)
          IN  /\ calls' = calls \o <<Call("get_account_balance", TRUE, "main", NoneStr, NoneNum),
                                     Call("get_current_price", TRUE, "main", NoneStr, NoneNum)>>
              /\ error' = IF r.raised = "None" THEN error ELSE r.raised
              /\ pc' = IF r.raised = "None" THEN "order" ELSE "handler"
              /\ qty' = IF r.raised = "None" THEN r.qty ELSE qty
    /\ UNCHANGED <<config, exPosition, snapshot, technical_guardrail, volatility_scale,
                   position_size_spec, outlook, interpretation, final_signal, position,
                   current_position, matched, order_response>>

\* custom_helpers.py:127-136
PlaceOrder ==
    /\ pc = "order"
    /\ LET side == upper(Direction(matched))
       IN  \/ /\ calls' = Append(calls, Call("place_order", TRUE, "main", side, qty))
              /\ exPosition' = IF exPosition = NonePosition
                               THEN [side |-> side, positionId |-> 2, avgOpenPrice |-> price]
                               ELSE exPosition
              /\ order_response' = "order"
              /\ pc' = IF hasTpsl THEN "stoploss" ELSE "completed"
              /\ error' = error
           \/ /\ calls' = Append(calls, Call("place_order", FALSE, "main", side, qty))
              /\ exPosition' = exPosition
              /\ order_response' = order_response
              /\ pc' = "handler"
              /\ error' = "BitunixError"
    /\ UNCHANGED <<config, snapshot, technical_guardrail, volatility_scale,
                   position_size_spec, outlook, interpretation, final_signal, position,
                   current_position, matched, qty>>

\* The stop-loss attachment without its try: a failure leaves open_position.
AttachStopLoss_propagating ==
    /\ pc = "stoploss"
    /\ \/ /\ calls' = Append(calls, Call("get_pending_positions", FALSE, "main", NoneStr, NoneNum))
          /\ pc' = "handler"
          /\ error' = "BitunixError"
       \/ \E ok \in BOOLEAN :
            /\ calls' = calls
                \o <<Call("get_pending_positions", TRUE, "main", NoneStr,
                           RInt(exPosition.positionId))>>
                \o (IF exPosition # NonePosition
                    THEN <<Call("place_position_tpsl", ok, "main", NoneStr,
                                calculate_stop_loss_price(exPosition.avgOpenPrice,
                                    upper(Direction(matched)), RInt(STOP_LOSS_PERCENT)))>>
                    ELSE <<>>)
            /\ pc' = IF ok THEN "completed" ELSE "handler"
            /\ error' = IF ok THEN error ELSE "BitunixError"
    /\ UNCHANGED <<config, exPosition, snapshot, technical_guardrail, volatility_scale,
                   position_size_spec, outlook, interpretation, final_signal, position,
                   current_position, matched, qty, order_response>>

\* custom_helpers.py:137-153: every exception is caught and logged.
AttachStopLoss ==
    /\ pc = "stoploss"
    /\ \/ calls' = Append(calls, Call("get_pending_positions", FALSE, "main", NoneStr, NoneNum))
       \/ \E ok \in BOOLEAN :
            calls' = calls
                \o <<Call("get_pending_positions", TRUE, "main", NoneStr,
                           RInt(exPosition.positionId))>>
                \o (IF exPosition # NonePosition
                    THEN <<Call("place_position_tpsl", ok, "main", NoneStr,
                                calculate_stop_loss_price(exPosition.avgOpenPrice,
                                    upper(Direction(matched)), RInt(STOP_LOSS_PERCENT)))>>
                    ELSE <<>>)
    /\ pc' = "completed"
    /\ UNCHANGED <<config, exPosition, snapshot, technical_guardrail, volatility_scale,
                   position_size_spec, outlook, interpretation, final_signal, position,
                   current_position, matched, qty, order_response, error>>

(***************************************************************************)
(* runner.py:201-214  the handler                                          *)
(***************************************************************************)
\* The handler without the test of line 207: it flash-closes whatever the
\* query returned.
EmergencyQuery_unguarded ==
    /\ pc = "handler"
    /\ \/ /\ calls' = Append(calls, Call("get_pending_positions", TRUE, "handler", NoneStr,
                                         RInt(exPosition.positionId)))
          /\ position' = exPosition
          /\ pc' = "emergency"
       \/ /\ calls' = Append(calls, Call("get_pending_positions", FALSE, "handler", NoneStr, NoneNum))
          /\ position' = position
          /\ pc' = "failed"
    /\ UNCHANGED <<config, exPosition, snapshot, technical_guardrail, volatility_scale,
                   position_size_spec, outlook, interpretation, final_signal,
                   current_position, matched, qty, order_response, error>>

\* runner.py:206-207, 211-212
EmergencyQuery ==
    /\ pc = "handler"
    /\ \/ /\ calls' = Append(calls, Call("get_pending_positions", TRUE, "handler", NoneStr,
                                         RInt(exPosition.positionId)))
          /\ position' = exPosition
          /\ pc' = IF position' # NonePosition THEN "emergency" ELSE "failed"
       \/ /\ calls' = Append(calls, Call("get_pending_positions", FALSE, "handler", NoneStr, NoneNum))
          /\ position' = position
          /\ pc' = "failed"
    /\ UNCHANGED <<config, exPosition, snapshot, technical_guardrail, volatility_scale,
                   position_size_spec, outlook, interpretation, final_signal,
                   current_position, matched, qty, order_response, error>>

\* runner.py:208-212
EmergencyClose ==
    /\ pc = "emergency"
    /\ \/ /\ calls' = Append(calls, Call("flash_close_position", TRUE, "handler", NoneStr,
                                         RInt(position.positionId)))
          /\ exPosition' = IF exPosition.positionId = position.positionId
                           THEN NonePosition ELSE exPosition
       \/ /\ calls' = Append(calls, Call("flash_close_position", FALSE, "handler", NoneStr,
                                         RInt(position.positionId)))
          /\ exPosition' = exPosition
    /\ pc' = "failed"
    /\ UNCHANGED <<config, snapshot, technical_guardrail, volatility_scale,
                   position_size_spec, outlook, interpretation, final_signal, position,
                   current_position, matched, qty, order_response, error>>

Next ==
    \/ FetchMarketData
    \/ DeriveSignal
    \/ ScaleSpec
    \/ AIRequest
    \/ Fuse
    \/ SaveResponse
    \/ GetPendingPositions
    \/ LogBalance
    \/ SetMarginMode
    \/ SetLeverage
    \/ Match
    \/ FlashClose
    \/ CalcSize
    \/ PlaceOrder
    \/ AttachStopLoss
    \/ EmergencyQuery
    \/ EmergencyClose

Spec == Init /\ [][Next]_vars

(***************************************************************************)
(* derive_signal alone, over a wide set of snapshots: the script stands at *)
(* line 90 with the snapshot build_snapshot returned.                      *)
(***************************************************************************)
MaxLevel == 3
MaxMove == 3
MaxChange == 3

RsiValues == {RInt(0), RInt(25), RInt(35), RInt(44), RInt(45), RInt(46), RInt(50),
              RInt(54), RInt(55), R(111, 2), RInt(56), RInt(65), RInt(75), RInt(76),
              RInt(100)}

\* Closes and averages on MaxLevel levels, momentum in steps of 0.001 and the
\* 24h change in steps of 0.0025 around zero.
AllSnapshots ==
    {Snap(RInt(c), RInt(f), RInt(s), r, R(m, 1000), R(g, 400), RInt(2)) :
        c \in 1..MaxLevel, f \in 1..MaxLevel, s \in 1..MaxLevel, r \in RsiValues,
        m \in -MaxMove..MaxMove, g \in -MaxChange..MaxChange}

InitScorer ==
    /\ POSITION_SIZE = NumSpec("int", RInt(20))
    /\ hasTpsl = TRUE
    /\ price = RInt(1)
    /\ capital = RInt(30)
    /\ MARKET_DATA_INTERVAL = <<"1","5","m">>
    /\ klines = <<>>
    /\ exPosition = NonePosition
    /\ pc = "derive"
    /\ snapshot \in AllSnapshots
    /\ technical_guardrail = NoneGuardrail
    /\ volatility_scale = NoneNum
    /\ position_size_spec = POSITION_SIZE
    /\ outlook = NoneOutlook
    /\ interpretation = NoneStr
    /\ final_signal = NoneStr
    /\ position = NonePosition
    /\ current_position = NoneStr
    /\ matched = "None"
    /\ qty = NoneNum
    /\ order_response = "None"
    /\ error = "None"
    /\ calls = <<>>

NextScorer == DeriveSignal

SpecScorer == InitScorer /\ [][NextScorer]_vars

(***************************************************************************)
(* build_snapshot alone, over the intervals and short candle series: the   *)
(* script stands at line 89 with the candles fetch_klines returned.        *)
(***************************************************************************)
MaxBars == 4
MaxVolume == 1

\* Intervals of every unit, with windows that hold whole bars, part of a
\* bar, and half bars; an unknown unit, a missing number, and zero.
Intervals == {<<"1","5","m">>, <<"1","h">>, <<"4","h">>, <<"6","h">>, <<"8","h">>,
              <<"1","2","h">>, <<"1","6","h">>, <<"1","d">>, <<"2","d">>, <<"3","d">>,
              <<"1","w">>, <<"m">>, <<"0","m">>}

Candles == {[close |-> RInt(c), volume |-> RInt(v)] : c \in 1..2, v \in 0..MaxVolume}

\* fetch_klines returns at least one candle (market_data.py:46-47).
AllKlines == UNION {[1..n -> Candles] : n \in 1..MaxBars}

InitSnapshot ==
    /\ POSITION_SIZE = NumSpec("int", RInt(20))
    /\ hasTpsl = TRUE
    /\ price = RInt(1)
    /\ capital = RInt(30)
    /\ MARKET_DATA_INTERVAL \in Intervals
    /\ klines \in AllKlines
    /\ exPosition = NonePosition
    /\ pc = "build"
    /\ snapshot = NoneSnapshot
    /\ technical_guardrail = NoneGuardrail
    /\ volatility_scale = NoneNum
    /\ position_size_spec = POSITION_SIZE
    /\ outlook = NoneOutlook
    /\ interpretation = NoneStr
    /\ final_signal = NoneStr
    /\ position = NonePosition
    /\ current_position = NoneStr
    /\ matched = "None"
    /\ qty = NoneNum
    /\ order_response = "None"
    /\ error = "None"
    /\ calls = <<>>

NextSnapshot == BuildSnapshot

SpecSnapshot == InitSnapshot /\ [][NextSnapshot]_vars

(***************************************************************************)
(* The guardrail from derive_signal to combine_signals (runner.py:90-145): *)
(* the script stands at line 90 with a snapshot, derives the guardrail,    *)
(* scales the sizing spec, asks for the opinion and fuses the two.         *)
(***************************************************************************)
\* The snapshots of AllSnapshots with an RSI at an end of the scale, at the
\* two RSI thresholds' sides and in the middle.
GuardrailRsiValues == {RInt(0), RInt(45), RInt(50), RInt(56), RInt(100)}

InitGuardrail == InitScorer /\ snapshot.rsi \in GuardrailRsiValues

NextGuardrail ==
    \/ DeriveSignal
    \/ ScaleSpec
    \/ AIRequest
    \/ Fuse

SpecGuardrail == InitGuardrail /\ [][NextGuardrail]_vars

(***************************************************************************)
(* combine_signals alone, over a wide set of arguments: the script stands  *)
(* at line 137 with the interpretation and the guardrail it holds.         *)
(***************************************************************************)
FusionPrimaries == {Bullish, Bearish, Neutral, NoneStr, <<>>,
                    <<"b","u","l","l","i","s","h">>, <<"B","E","A","R","I","S","H"," ">>,
                    <<"\t","n","e","u","t","r","a","l">>, <<"H","o","l","d">>,
                    <<"B","u","l","l"," ","i","s","h">>}

FusionGuardSignals == {Bullish, Bearish, Neutral, NoneStr, <<>>,
                       <<"b","e","a","r","i","s","h">>, <<"S","i","d","e","w","a","y","s">>}

FusionConfidences == {NoneNum} \cup
    {R(k, 100) : k \in {0, 45, 54, 55, 56, 74, 75, 76, 95, 100}}

InitFusion ==
    /\ POSITION_SIZE = NumSpec("int", RInt(20))
    /\ hasTpsl = TRUE
    /\ price = RInt(1)
    /\ capital = RInt(30)
    /\ MARKET_DATA_INTERVAL = <<"1","5","m">>
    /\ klines = <<>>
    /\ exPosition = NonePosition
    /\ pc = "fuse"
    /\ snapshot = NoneSnapshot
    /\ technical_guardrail \in
          {[signal |-> g, confidence |-> c, rationale |-> <<>>] :
              g \in FusionGuardSignals, c \in FusionConfidences}
    /\ volatility_scale = NoneNum
    /\ position_size_spec = POSITION_SIZE
    /\ interpretation \in FusionPrimaries
    /\ outlook = [interpretation |-> interpretation]
    /\ final_signal = NoneStr
    /\ position = NonePosition
    /\ current_position = NoneStr
    /\ matched = "None"
    /\ qty = NoneNum
    /\ order_response = "None"
    /\ error = "None"
    /\ calls = <<>>

NextFusion == Fuse

SpecFusion == InitFusion /\ [][NextFusion]_vars

(***************************************************************************)
(* _scale_position_size_spec alone, over a wide set of specs and           *)
(* volatilities: the script stands at line 92.                             *)
(***************************************************************************)
AllSpecs ==
    {pct(<<"1","0">>), pct(<<"1","2",".","5">>), pct(<<"0",".","2","5">>),
     pct(<<"0",".","0","5">>), pct(<<"0",".","1","5">>), pct(<<"1","0","0">>),
     pct(<<"1","0","0",".","0","1">>), pct(<<"1","5","0">>), pct(<<"0">>),
     pct(<<"-","5">>), pct(<<" ","5"," ">>), pct(<<"1","0","%">>), pct(<<"a","b","c">>),
     StrSpec(<<"1","0">>), StrSpec(<<>>),
     NumSpec("int", RInt(20)), NumSpec("int", RInt(15)), NumSpec("int", RInt(30)),
     NumSpec("int", RInt(31)), NumSpec("int", RInt(0)), NumSpec("int", RInt(-5)),
     NumSpec("float", R(45, 2)), NumSpec("float", R(1, 2)),
     OtherSpec("NoneType"), OtherSpec("list")}

\* ATR% in steps of a quarter from 0 to 5.
AtrValues == {R(k, 4) : k \in 0..20}

InitSizer ==
    /\ POSITION_SIZE \in AllSpecs
    /\ hasTpsl = TRUE
    /\ price = RInt(1)
    /\ capital = RInt(30)
    /\ MARKET_DATA_INTERVAL = <<"1","5","m">>
    /\ klines = <<>>
    /\ exPosition = NonePosition
    /\ pc = "scale"
    /\ snapshot \in {Snap(RInt(3), RInt(3), RInt(2), RInt(50), RInt(0), RInt(0), a) :
                        a \in AtrValues}
    /\ technical_guardrail = derive_signal(snapshot)
    /\ volatility_scale = NoneNum
    /\ position_size_spec = POSITION_SIZE
    /\ outlook = NoneOutlook
    /\ interpretation = NoneStr
    /\ final_signal = NoneStr
    /\ position = NonePosition
    /\ current_position = NoneStr
    /\ matched = "None"
    /\ qty = NoneNum
    /\ order_response = "None"
    /\ error = "None"
    /\ calls = <<>>

NextSizer == ScaleSpec

SpecSizer == InitSizer /\ [][NextSizer]_vars

(***************************************************************************)
(* open_position and what follows it, over a wide set of specs: the match  *)
(* statement has taken a case that opens and the script stands at          *)
(* custom_helpers.py:124.  No market context was built, the opinion was    *)
(* directional, and the exchange reported no position or one whose side    *)
(* label is not recognised.                                                *)
(***************************************************************************)
MainPrefix(reported) ==
    <<Call("get_pending_positions", TRUE, "main", NoneStr, RInt(reported.positionId)),
      Call("get_account_balance", TRUE, "main", NoneStr, NoneNum),
      Call("set_margin_mode", TRUE, "main", NoneStr, NoneNum),
      Call("set_leverage", TRUE, "main", NoneStr, NoneNum)>>

InitOpen ==
    /\ POSITION_SIZE \in AllSpecs
    /\ hasTpsl \in BOOLEAN
    /\ price \in Prices
    /\ capital \in Capitals
    /\ MARKET_DATA_INTERVAL = <<"1","5","m">>
    /\ klines = <<>>
    /\ exPosition \in {NonePosition,
                       [side |-> <<"B","O","T","H">>, positionId |-> 1, avgOpenPrice |-> price]}
    /\ pc = "size"
    /\ snapshot = NoneSnapshot
    /\ technical_guardrail = NoneGuardrail
    /\ volatility_scale = NoneNum
    /\ position_size_spec = POSITION_SIZE
    /\ final_signal \in {Bullish, Bearish}
    /\ interpretation = final_signal
    /\ outlook = [interpretation |-> final_signal]
    /\ position = exPosition
    /\ current_position = NoneStr
    /\ matched = match(final_signal, current_position)
    /\ qty = NoneNum
    /\ order_response = "None"
    /\ error = "None"
    /\ calls = MainPrefix(position)

NextOpen ==
    \/ CalcSize
    \/ PlaceOrder
    \/ AttachStopLoss
    \/ EmergencyQuery
    \/ EmergencyClose

SpecOpen == InitOpen /\ [][NextOpen]_vars

(***************************************************************************)
(* What the claims speak of.                                               *)
(***************************************************************************)
IsPrefix(a, b) == Len(a) <= Len(b) /\ SubSeq(b, 1, Len(a)) = a

IsMainTrade(c) == c.path = "main" /\ c.op \in {"flash_close_position", "place_order"}
IsFlashClose(c) == c.op = "flash_close_position"
IsMainFlashClose(c) == c.op = "flash_close_position" /\ c.path = "main"
IsHandlerFlashClose(c) == c.op = "flash_close_position" /\ c.path = "handler"
IsHandlerQuery(c) == c.op = "get_pending_positions" /\ c.path = "handler"

\* The orders and closes of the main path, as (operation, side) pairs.
MainTrades ==
    LET s == SelectSeq(calls, IsMainTrade)
    IN  [i \in 1..Len(s) |-> <<s[i].op, s[i].side>>]

CloseIt == <<"flash_close_position", NoneStr>>
OpenLong == <<"place_order", BUY>>
OpenShort == <<"place_order", SELL>>

\* The transition table of the decision engine: Long is "buy", Short is "sell".
TransitionTable(signal, side) ==
    IF signal = Bullish
    THEN (IF side = NoneStr THEN <<OpenLong>>
          ELSE IF side = buy THEN <<>> ELSE <<CloseIt, OpenLong>>)
    ELSE IF signal = Bearish
    THEN (IF side = NoneStr THEN <<OpenShort>>
          ELSE IF side = buy THEN <<CloseIt, OpenShort>> ELSE <<>>)
    ELSE (IF side = NoneStr THEN <<>> ELSE <<CloseIt>>)

Terminal == {"completed", "failed", "crashed"}
InHandler == {"handler", "emergency", "failed"}

\* C1: in a cycle that completes, the orders and closes issued are exactly
\* those of the transition table for (final signal, position side), in its
\* order; while the cycle runs, and in a cycle an exchange call ends early,
\* they are a prefix of them, and only the last of them can have failed.
C1_TransitionTable ==
    LET expected == IF final_signal = NoneStr THEN <<>>
                    ELSE TransitionTable(final_signal, current_position)
        trades == SelectSeq(calls, IsMainTrade)
    IN  /\ IsPrefix(MainTrades, expected)
        /\ \A i \in 1..Len(trades) : i < Len(trades) => trades[i].ok
        /\ pc = "completed" =>
              /\ MainTrades = expected
              /\ \A i \in 1..Len(trades) : trades[i].ok

\* A completed flip to long: the short was flash-closed, then the long opened.
C1_Witness ==
    /\ pc = "completed"
    /\ final_signal = Bullish
    /\ current_position = sell
    /\ MainTrades = <<CloseIt, OpenLong>>

\* The first call of a cycle is the position query of line 152.
FirstQueryReturned == Len(calls) >= 1 /\ calls[1].ok
FirstQueryFoundPosition == FirstQueryReturned /\ calls[1].arg # RInt(0)
FirstQueryFoundNone == FirstQueryReturned /\ calls[1].arg = RInt(0)

\* C2 as claimed: a cycle that fails after its position query returned a
\* position issues exactly one flash_close_position call, and a cycle
\* whose position query returned no position issues none.
C2_ExactlyOneFlashClose ==
    /\ (pc = "failed" /\ FirstQueryFoundPosition) => Len(SelectSeq(calls, IsFlashClose)) = 1
    /\ (pc \in Terminal /\ FirstQueryFoundNone) => Len(SelectSeq(calls, IsFlashClose)) = 0

\* C2 as amended: the handler queries the position once and issues one
\* flash close exactly when that query returns a position, none when it
\* returns no position or raises, whatever the main path did before; the
\* main path issues at most one flash close, and only for a position whose
\* side it recognised.  A cycle thus issues zero, one or two flash closes.
C2_HandlerClosesWhatItFinds ==
    LET mainCloses == SelectSeq(calls, IsMainFlashClose)
        queries == SelectSeq(calls, IsHandlerQuery)
        closes == SelectSeq(calls, IsHandlerFlashClose)
    IN  /\ Len(mainCloses) <= 1
        /\ Len(mainCloses) = 1 => current_position \in {buy, sell}
        /\ Len(queries) <= 1
        /\ Len(closes) <= 1
        /\ pc \notin InHandler => queries = <<>> /\ closes = <<>>
        /\ pc = "handler" => queries = <<>> /\ closes = <<>>
        /\ pc = "emergency" =>
              Len(queries) = 1 /\ queries[1].ok /\ queries[1].arg # RInt(0) /\ closes = <<>>
        /\ pc = "failed" =>
              /\ Len(queries) = 1
              /\ Len(closes) = 1 <=> (queries[1].ok /\ queries[1].arg # RInt(0))

\* The main path's flash close raised and the handler issued a second one.
C2_Witness ==
    /\ pc = "failed"
    /\ FirstQueryFoundPosition
    /\ Len(SelectSeq(calls, IsMainFlashClose)) = 1
    /\ Len(SelectSeq(calls, IsHandlerFlashClose)) = 1

\* The primary signal handed to combine_signals: the outlook's
\* interpretation, or "Neutral" when the request failed.
Primary == IF outlook = NoneOutlook THEN Neutral ELSE outlook.interpretation

GuardrailSignal == IF technical_guardrail # NoneGuardrail
                   THEN technical_guardrail.signal ELSE NoneStr
GuardrailConfidence == IF technical_guardrail # NoneGuardrail
                       THEN technical_guardrail.confidence ELSE NoneNum

\* C3: the fused signal is the result of the first rule that matches, in
\* the order (1) guardrail signal or confidence absent: the normalized
\* primary; (2) primary = guardrail: that signal; (3) primary Neutral and
\* confidence >= 0.55: the guardrail; (4) guardrail Neutral: the primary;
\* (5) Bullish against Bearish with confidence >= 0.75: Neutral; (6) the
\* primary.
C3_PrecedenceChain ==
    final_signal # NoneStr =>
        LET P == _normalize_signal(Primary)
            G == _normalize_signal(GuardrailSignal)
            c == GuardrailConfidence
            rule1 == ~Truthy(GuardrailSignal) \/ c = NoneNum
            rule2 == P = G
            rule3 == P = Neutral /\ RGe(c, R(55, 100))
            rule4 == G = Neutral
            rule5 == {P, G} = {Bullish, Bearish} /\ RGe(c, R(75, 100))
        IN  /\ P \in Signals
            /\ rule1 => final_signal = P
            /\ (~rule1 /\ rule2) => final_signal = G
            /\ (~rule1 /\ ~rule2 /\ rule3) => final_signal = G
            /\ (~rule1 /\ ~rule2 /\ ~rule3 /\ rule4) => final_signal = P
            /\ (~rule1 /\ ~rule2 /\ ~rule3 /\ ~rule4 /\ rule5) => final_signal = Neutral
            /\ (~rule1 /\ ~rule2 /\ ~rule3 /\ ~rule4 /\ ~rule5) => final_signal = P

\* Rule 5 at its threshold: Bullish against a Bearish guardrail of
\* confidence 0.75 is flattened to Neutral.
C3_Witness ==
    /\ final_signal = Neutral
    /\ _normalize_signal(Primary) = Bullish
    /\ GuardrailSignal = Bearish
    /\ GuardrailConfidence = R(75, 100)

\* The request to the opinion source has returned or failed, and it failed.
AIFailed == pc \notin {"fetch", "derive", "scale", "ai"} /\ outlook = NoneOutlook

MainCallRaised == \E i \in 1..Len(calls) : calls[i].path = "main" /\ ~calls[i].ok

\* C4: after a failed opinion request the primary signal is Neutral, the
\* fused signal is what fusion gives for a Neutral primary, the script
\* goes on to query the position and to decide (it never stops before a
\* terminal state), and it is in the handler only if an exchange call or
\* the sizing of an order raised.
C4_AIFailureContinues ==
    AIFailed =>
        /\ pc = "fuse" => interpretation = Neutral
        /\ pc # "fuse" =>
              final_signal =
                  IF technical_guardrail = NoneGuardrail THEN Neutral
                  ELSE IF RGe(technical_guardrail.confidence, R(55, 100))
                       THEN technical_guardrail.signal ELSE Neutral
        /\ pc \notin {"save", "crashed"}
        /\ pc \notin Terminal => ENABLED Next
        /\ pc \in InHandler =>
              error # "None" /\ (MainCallRaised \/ error \in {"ValueError", "TypeError"})
        /\ pc \in {"completed", "failed"} =>
              /\ final_signal # NoneStr
              /\ calls # <<>> /\ calls[1].op = "get_pending_positions" /\ calls[1].path = "main"
        /\ pc = "completed" => matched # "None"

\* The request failed, the guardrail broke the Neutral tie and a long was opened.
C4_Witness ==
    /\ pc = "completed"
    /\ outlook = NoneOutlook
    /\ final_signal = Bullish
    /\ matched = "Bullish/None"
    /\ MainTrades = <<OpenLong>>

OrderPlaced == \E i \in 1..Len(calls) : calls[i].op = "place_order" /\ calls[i].ok

\* C5: once place_order has returned, whatever the stop-loss attachment
\* does, no exception leaves open_position: the order response is kept, no
\* call but those of the attachment follows (no flash close, no handler),
\* the position stays open and the cycle ends completed.
C5_StopLossFailureSwallowed ==
    OrderPlaced =>
        LET i == CHOOSE k \in 1..Len(calls) : calls[k].op = "place_order" /\ calls[k].ok
        IN  /\ pc \in {"stoploss", "completed"}
            /\ error = "None"
            /\ order_response = "order"
            /\ exPosition # NonePosition
            /\ \A j \in (i + 1)..Len(calls) :
                  /\ calls[j].op \in {"get_pending_positions", "place_position_tpsl"}
                  /\ calls[j].path = "main"

\* The cycle completed although place_position_tpsl raised.
C5_Witness ==
    /\ pc = "completed"
    /\ OrderPlaced
    /\ calls[Len(calls)].op = "place_position_tpsl"
    /\ ~calls[Len(calls)].ok
    /\ exPosition # NonePosition

\* C6: the guardrail is complete (or absent for good) and the spec scaled
\* before fusion; the exchange is called only after fusion; an order is
\* submitted (place_order) only after the balance and the price were read
\* and the quantity computed, and it carries that quantity; the handler
\* runs only after the main path raised, and the main path makes no call
\* after it.
C6_StepOrder ==
    /\ pc \in {"fetch", "derive", "scale", "ai"} =>
          final_signal = NoneStr /\ calls = <<>>
    /\ final_signal # NoneStr =>
          /\ technical_guardrail # NoneGuardrail =>
                /\ technical_guardrail = derive_signal(snapshot)
                /\ volatility_scale = volatility_scale_of(snapshot.atr_pct)
          /\ final_signal = combine_signals(Primary, GuardrailSignal, GuardrailConfidence)
    /\ calls # <<>> => final_signal # NoneStr /\ interpretation = final_signal
    /\ \A i \in 1..Len(calls) :
          calls[i].op = "place_order" =>
              /\ i >= 3
              /\ calls[i - 2].op = "get_account_balance" /\ calls[i - 2].ok
              /\ calls[i - 1].op = "get_current_price" /\ calls[i - 1].ok
              /\ qty # NoneNum
              /\ calls[i].arg = qty
    /\ pc \in InHandler => error # "None"
    /\ \A i \in 1..Len(calls) :
          calls[i].path = "handler" =>
              /\ error # "None"
              /\ MainCallRaised \/ error \in {"ValueError", "TypeError"}
              /\ \A j \in i..Len(calls) : calls[j].path = "handler"

\* A flip under a guardrail: the short was flash-closed, the order sized,
\* place_order raised, and the handler then queried the position.
C6_Witness ==
    /\ pc = "failed"
    /\ technical_guardrail # NoneGuardrail
    /\ matched \in Flips
    /\ \E i \in 1..Len(calls) : calls[i].op = "place_order" /\ ~calls[i].ok
    /\ calls[Len(calls)].path = "handler"

\* A spec of the form "p%" with p a decimal number, and its p.
IsPctSpec(spec) ==
    /\ spec.type = "str"
    /\ endswith(spec.s, <<"%">>)
    /\ float(rstrip(spec.s, "%")) # NoneNum
PctOf(spec) == float(rstrip(spec.s, "%"))

PriceRead == \E i \in 1..Len(calls) : calls[i].op = "get_current_price" /\ calls[i].ok
NoOrder == \A i \in 1..Len(calls) : calls[i].op # "place_order"
SizingFailed(e) == error = e /\ qty = NoneNum /\ NoOrder /\ pc \in InHandler

ClaimedFactor(a) ==
    IF RGe(a, RInt(4)) THEN R(1, 2)
    ELSE IF RGe(a, RInt(3)) /\ RLt(a, RInt(4)) THEN R(3, 4)
    ELSE IF RLe(a, RInt(1)) THEN R(11, 10)
    ELSE RInt(1)

\* C8 as claimed: the scaled spec is the configured spec times the factor
\* of the ATR% class, unchanged for the factor 1, and otherwise clamped to
\* at least 0.1 (a percentage) or 1e-8 (a fixed amount); it has the mode of
\* the configured spec.
C8_ScaledByFactor ==
    pc = "ai" =>
        LET k == ClaimedFactor(snapshot.atr_pct)
        IN  /\ IsPctSpec(POSITION_SIZE) =>
                  /\ IsPctSpec(position_size_spec)
                  /\ PctOf(position_size_spec) =
                        IF k = RInt(1) THEN PctOf(POSITION_SIZE)
                        ELSE RMax(R(1, 10), RMul(PctOf(POSITION_SIZE), k))
            /\ IsNumber(POSITION_SIZE) =>
                  /\ IsNumber(position_size_spec)
                  /\ position_size_spec.v =
                        IF k = RInt(1) THEN POSITION_SIZE.v
                        ELSE RMax(RInt(1), RMul(POSITION_SIZE.v, k))

\* A percentage written with exactly two decimals: "d...d.dd%".
TwoDecimals(spec) ==
    LET s == spec.s
    IN  /\ Len(s) >= 5
        /\ s[Len(s)] = "%"
        /\ s[Len(s) - 3] = "."
        /\ \A i \in 1..(Len(s) - 1) : i # Len(s) - 3 => IsDigit(s[i])

\* C8 as amended: as claimed, except that a percentage scaled by a factor
\* other than 1 is written with two decimals: it is the clamped product
\* rounded to a nearest hundredth, within 0.005 of it and at least 0.10.
\* With the factor 1 the spec is the configured one, and a spec that is
\* neither a percentage nor a number is never changed.
C8_ScaledToTwoDecimals ==
    pc = "ai" =>
        LET k == ClaimedFactor(snapshot.atr_pct)
            target == RMax(R(1, 10), RMul(PctOf(POSITION_SIZE), k))
        IN  /\ volatility_scale = k
            /\ k = RInt(1) => position_size_spec = POSITION_SIZE
            /\ (IsPctSpec(POSITION_SIZE) /\ k # RInt(1)) =>
                  /\ IsPctSpec(position_size_spec)
                  /\ TwoDecimals(position_size_spec)
                  /\ RLe(RAbs(RSub(PctOf(position_size_spec), target)), R(1, 200))
                  /\ RGe(PctOf(position_size_spec), R(1, 10))
            /\ (IsNumber(POSITION_SIZE) /\ k # RInt(1)) =>
                  /\ IsNumber(position_size_spec)
                  /\ position_size_spec.v = RMax(RInt(1), RMul(POSITION_SIZE.v, k))
            /\ (~IsPctSpec(POSITION_SIZE) /\ ~IsNumber(POSITION_SIZE)) =>
                  position_size_spec = POSITION_SIZE

\* "0.25%" halved at ATR% >= 4 is written "0.12%" or "0.13%", not 0.125%.
C8_Witness ==
    /\ pc = "ai"
    /\ POSITION_SIZE = pct(<<"0",".","2","5">>)
    /\ volatility_scale = R(1, 2)
    /\ position_size_spec \in {pct(<<"0",".","1","2">>), pct(<<"0",".","1","3">>)}

\* The score as the claim gives it: the sum of the five bias terms.
ClaimedScore(s) ==
    LET trend == IF RGt(s.latest_close, s.sma_slow) THEN R(25, 100) ELSE RNeg(R(25, 100))
        cross == IF RGt(s.sma_fast, s.sma_slow) THEN R(20, 100) ELSE RNeg(R(20, 100))
        rsi == IF RGe(s.rsi, RInt(55))
               THEN RMin(R(20, 100), RDiv(RSub(s.rsi, RInt(55)), RInt(100)))
               ELSE IF RLe(s.rsi, RInt(45))
               THEN RNeg(RMin(R(20, 100), RDiv(RSub(RInt(45), s.rsi), RInt(100))))
               ELSE RInt(0)
        mom == IF RLt(RAbs(s.momentum_1h), R(2, 1000)) THEN RInt(0)
               ELSE IF RGt(s.momentum_1h, RInt(0)) THEN R(15, 100) ELSE RNeg(R(15, 100))
        chg == IF RLt(RAbs(s.change_24h), R(5, 1000)) THEN RInt(0)
               ELSE IF RGt(s.change_24h, RInt(0)) THEN R(10, 100) ELSE RNeg(R(10, 100))
    IN  RAdd(trend, RAdd(cross, RAdd(rsi, RAdd(mom, chg))))

\* C9: the guardrail of a snapshot is Bullish when the sum of the five
\* bias terms is > 0.15, Bearish when it is < -0.15 and Neutral otherwise,
\* and its confidence is 0.55 + |score| kept within [0.45, 0.95].
C9_ScoreAndThresholds ==
    pc = "scale" =>
        LET score == ClaimedScore(snapshot)
            raw == RAdd(R(55, 100), RAbs(score))
        IN  /\ technical_guardrail.signal =
                  IF RGt(score, R(15, 100)) THEN Bullish
                  ELSE IF RLt(score, RNeg(R(15, 100))) THEN Bearish
                  ELSE Neutral
            /\ technical_guardrail.confidence =
                  IF RLt(raw, R(45, 100)) THEN R(45, 100)
                  ELSE IF RGt(raw, R(95, 100)) THEN R(95, 100)
                  ELSE raw

\* A score of exactly 0.15 (0.25 - 0.20 + 0.10) is Neutral with confidence 0.70.
C9_Witness ==
    /\ pc = "scale"
    /\ ClaimedScore(snapshot) = R(15, 100)
    /\ technical_guardrail.signal = Neutral
    /\ technical_guardrail.confidence = R(70, 100)

\* The term of the score a reason of the rationale speaks of.
TermOf(part) ==
    IF part.text \in {"Price above long SMA", "Price below long SMA"} THEN "long-trend"
    ELSE IF part.text \in {"SMA20>SMA60", "SMA20<SMA60"} THEN "ma-cross"
    ELSE IF part.text \in {"RSI strong", "RSI weak"} THEN "rsi"
    ELSE IF part.text \in {"1h momentum +", "1h momentum "} THEN "momentum-1h"
    ELSE "change-24h"

\* The terms that contribute to the score of a snapshot, in the fixed order.
ContributingTerms(s) ==
    <<"long-trend", "ma-cross">>
    \o (IF RGe(s.rsi, RInt(55)) \/ RLe(s.rsi, RInt(45)) THEN <<"rsi">> ELSE <<>>)
    \o (IF RGe(RAbs(s.momentum_1h), R(2, 1000)) THEN <<"momentum-1h">> ELSE <<>>)
    \o (IF RGe(RAbs(s.change_24h), R(5, 1000)) THEN <<"change-24h">> ELSE <<>>)

\* C10: the rationale has one reason for each term that contributed to the
\* score and none for a term that did not, in the order long-trend,
\* moving-average cross, RSI, 1h momentum, 24h change.
C10_RationaleCoversEveryTerm ==
    pc = "scale" =>
        [i \in 1..Len(technical_guardrail.rationale) |-> TermOf(technical_guardrail.rationale[i])]
            = ContributingTerms(snapshot)

(***************************************************************************)
(* C11  build_snapshot: bar counts of the windows                          *)
(***************************************************************************)
\* round(period_minutes / interval_minutes), a half going to the even
\* neighbour or away from zero.
RoundedBars(period_minutes, interval_minutes, tie) ==
    LET q == period_minutes \div interval_minutes
        r == period_minutes % interval_minutes
    IN  IF 2 * r < interval_minutes THEN q
        ELSE IF 2 * r > interval_minutes THEN q + 1
        ELSE IF tie = "even" /\ q % 2 = 0 THEN q ELSE q + 1

\* The sum of the last n volumes (of all of them when there are fewer), 0
\* when n is 0.
VolumeOverBars(volumes, n) ==
    sum(SubSeq(volumes, IF Len(volumes) > n THEN Len(volumes) - n + 1 ELSE 1, Len(volumes)))

\* C11: for every supported interval the snapshot build_snapshot returns has
\* its 24h change, 4h change and 1h momentum taken over
\* round(period_minutes / interval_minutes) bars (at least 1 bar for the 1h
\* window), and its 24h volume is the sum of the volumes of that many bars
\* of the 24h window, 0 when the window holds no bar; under either reading
\* of round at a half.
C11_RoundedBarCounts ==
    (pc = "derive" /\ klines # <<>>) =>
        \E tie \in {"even", "away"} :
            LET minutes == _interval_to_minutes(MARKET_DATA_INTERVAL).value
                closes == [i \in 1..Len(klines) |-> klines[i].close]
                volumes == [i \in 1..Len(klines) |-> klines[i].volume]
                bars_24h == RoundedBars(24 * 60, minutes, tie)
                bars_4h == RoundedBars(4 * 60, minutes, tie)
                bars_1h == IF RoundedBars(60, minutes, tie) > 1
                           THEN RoundedBars(60, minutes, tie) ELSE 1
            IN  /\ snapshot.change_24h = _period_pct_change(closes, bars_24h)
                /\ snapshot.change_4h = _period_pct_change(closes, bars_4h)
                /\ snapshot.momentum_1h = _period_pct_change(closes, bars_1h)
                /\ snapshot.volume_24h = VolumeOverBars(volumes, bars_24h)

(***************************************************************************)
(* C12  no opening order over an open position                             *)
(***************************************************************************)
\* C12: within one cycle every opening order (place_order, which
\* open_position always submits with trade_side OPEN) is submitted either
\* after the position query reported no open position or after a flash close
\* of the cycle succeeded, whatever side label the exchange reported.
C12_NoOpenOverPosition ==
    \A i \in 1..Len(calls) :
        calls[i].op = "place_order" =>
            \/ FirstQueryFoundNone
            \/ \E j \in 1..(i - 1) : IsFlashClose(calls[j]) /\ calls[j].ok

(***************************************************************************)
(* C13  the guardrail of derive_signal leads a Neutral opinion             *)
(***************************************************************************)
\* C13: every guardrail derive_signal produced has confidence >= 0.55, and
\* once the fusion has run with such a guardrail and a primary signal that
\* normalizes to Neutral, the fused signal is the guardrail's signal.
C13_GuardrailLeadsNeutral ==
    technical_guardrail # NoneGuardrail =>
        /\ RGe(technical_guardrail.confidence, R(55, 100))
        /\ (final_signal # NoneStr /\ _normalize_signal(Primary) = Neutral) =>
              final_signal = technical_guardrail.signal

\* An opinion outside the three signals ("Hold") meets a Bearish guardrail,
\* and the fused signal is Bearish.
C13_Witness ==
    /\ outlook # NoneOutlook
    /\ outlook.interpretation = <<"H","o","l","d">>
    /\ technical_guardrail # NoneGuardrail
    /\ technical_guardrail.signal = Bearish
    /\ RLt(technical_guardrail.confidence, R(75, 100))
    /\ final_signal = Bearish

=============================================================================
